---- MODULE Spec2Model ----
(***************************************************************************)
(* kube-oidc-proxy, pkg/proxy/proxy.go: the request path of the            *)
(* authenticating reverse proxy (Proxy.Run, Proxy.RoundTrip,               *)
(* Proxy.tokenReview, Proxy.hasImpersonation, Proxy.Error).                *)
(*                                                                         *)
(* Strings the code converts or concatenates (header names, extra keys)    *)
(* are sequences of one-character strings; strings it only compares        *)
(* (user names, groups, tokens, header value words) are TLA+ strings.      *)
(* A header value is the sequence of its space-separated words.            *)
(***************************************************************************)
EXTENDS Integers, Sequences, FiniteSets, TLC

(* ------------------------------ bounds --------------------------------- *)

\* at most this many headers besides Authorization on an inbound request
MaxHeaders == 2

(* ------------------------------ strings -------------------------------- *)

Upper == <<"A","B","C","D","E","F","G","H","I","J","K","L","M",
           "N","O","P","Q","R","S","T","U","V","W","X","Y","Z">>
Lower == <<"a","b","c","d","e","f","g","h","i","j","k","l","m",
           "n","o","p","q","r","s","t","u","v","w","x","y","z">>

ToLowerChar(c) ==
    IF \E i \in 1..26 : Upper[i] = c
    THEN Lower[CHOOSE i \in 1..26 : Upper[i] = c]
    ELSE c

\* strings.ToLower
ToLower(s) == [i \in 1..Len(s) |-> ToLowerChar(s[i])]

\* strings.HasPrefix
HasPrefix(s, prefix) ==
    /\ Len(s) >= Len(prefix)
    /\ SubSeq(s, 1, Len(prefix)) = prefix

\* client-go transport.ImpersonateUserHeader = "Impersonate-User"
ImpersonateUserHeader ==
    <<"I","m","p","e","r","s","o","n","a","t","e","-","U","s","e","r">>
\* client-go transport.ImpersonateGroupHeader = "Impersonate-Group"
ImpersonateGroupHeader ==
    <<"I","m","p","e","r","s","o","n","a","t","e","-","G","r","o","u","p">>
\* client-go transport.ImpersonateUserExtraHeaderPrefix = "Impersonate-Extra-"
ImpersonateUserExtraHeaderPrefix ==
    <<"I","m","p","e","r","s","o","n","a","t","e","-","E","x","t","r","a","-">>

\* proxy.go:37-39, "http headers are case-insensitive"
impersonateUserHeader  == ToLower(ImpersonateUserHeader)
impersonateGroupHeader == ToLower(ImpersonateGroupHeader)
impersonateExtraHeader == ToLower(ImpersonateUserExtraHeaderPrefix)

\* proxy.go:28
UserHeaderClientIPKey ==
    <<"R","e","m","o","t","e","-","C","l","i","e","n","t","-","I","P">>

AuthorizationHeader ==
    <<"A","u","t","h","o","r","i","z","a","t","i","o","n">>

\* k8s.io/apiserver authentication/user.AllAuthenticated
AllAuthenticated == "system:authenticated"

(* ------------------------------ errors --------------------------------- *)

Nil == "nil"
errUnauthorized      == "Unauthorized"
errImpersonateHeader == "Impersonate-User in header"
errNoName            == "No name in OIDC info"
\* an error of the upstream transport (TLS, connect, timeout)
errTransport         == "transport error"
\* bearertoken's default error for a token the verifier did not accept
errInvalidToken      == "invalid bearer token"
\* an error of the verifier itself (bad signature, expired, JWKS unavailable)
errVerifier          == "oidc: verify token"
errNotInitialized    == "oidc: authenticator not initialized"
\* an error of the TokenReview call
errReview            == "tokenreview unavailable"

(* ---------------------------- http.Header ------------------------------ *)
\* a header is a function from header names to non-empty sequences of values

EmptyHeader == [n \in {} |-> <<>>]

\* Header.Get: the first value of the key, "" (no words) when absent
HeaderGet(h, k) == IF k \in DOMAIN h THEN h[k][1] ELSE <<>>

\* Header.Del
HeaderDel(h, k) == [n \in (DOMAIN h) \ {k} |-> h[n]]

\* Header.Set
HeaderSet(h, k, v) ==
    [n \in (DOMAIN h) \cup {k} |-> IF n = k THEN <<v>> ELSE h[n]]

\* Header.Add
HeaderAdd(h, k, v) ==
    [n \in (DOMAIN h) \cup {k} |->
        IF n = k
        THEN (IF k \in DOMAIN h THEN Append(h[k], v) ELSE <<v>>)
        ELSE h[n]]

(* ------------------------------- inputs -------------------------------- *)

\* number of client connections the listener serves
NumConns == 2
Conns == 1..NumConns

\* authuser.Info as the verifier returns it
EmptyExtra == [k \in {} |-> <<>>]
NoInfo == [Name |-> "", Groups |-> <<>>, Extra |-> EmptyExtra]

\* What the issuer's tokens say: the user a bearer token resolves to when the
\* OIDC verifier accepts it; no user for a token the verifier never accepts.
TokenUsers ==
    [tok \in {"tokAlice", "tokBob", "tokCarol", "tokNoName"} |->
        CASE tok = "tokAlice"  -> [Name |-> "alice", Groups |-> <<"dev">>,
                                   Extra |-> EmptyExtra]
          [] tok = "tokBob"    -> [Name |-> "bob",
                                   Groups |-> <<AllAuthenticated, "ops">>,
                                   Extra |-> EmptyExtra]
          [] tok = "tokCarol"  -> [Name |-> "carol", Groups |-> <<>>,
                                   Extra |-> [k \in {UserHeaderClientIPKey} |->
                                                 <<"1.2.3.4">>]]
          [] tok = "tokNoName" -> [Name |-> "", Groups |-> <<"dev">>,
                                   Extra |-> EmptyExtra]]

\* values of an inbound Authorization header
AuthorizationValues ==
    { <<"Bearer", "tokAlice">>, <<"Bearer", "tokBob">>, <<"Bearer", "tokCarol">>,
      <<"Bearer", "tokNoName">>, <<"bearer", "tokBad">>, <<"Basic", "dXNlcg">>,
      <<"Bearer">>, <<"Bearer", "">> }

\* names of the other inbound headers
HdrAccept == <<"A","c","c","e","p","t">>
HdrImpersonateUser == ImpersonateUserHeader
HdrImpersonateGroupLower ==
    <<"i","m","p","e","r","s","o","n","a","t","e","-","g","r","o","u","p">>
HdrImpersonateExtraScopes ==
    <<"I","M","P","E","R","S","O","N","A","T","E","-","E","x","t","r","a","-",
      "S","c","o","p","e","s">>
HdrImpersonateUid ==
    <<"I","m","p","e","r","s","o","n","a","t","e","-","U","i","d">>

OtherHeaderNames ==
    { HdrAccept, HdrImpersonateUser, HdrImpersonateGroupLower,
      HdrImpersonateExtraScopes, HdrImpersonateUid }

\* the values of an inbound header: one value, or two of which the first reads
\* like the name of an impersonation header
InboundValues ==
    { << <<"x">> >>, << <<"Impersonate-User">>, <<"y">> >> }

\* inbound header sets: an optional Authorization and up to MaxHeaders others
InboundHeaders ==
    LET others == { [n \in S |-> v] :
                      S \in { T \in SUBSET OtherHeaderNames :
                                Cardinality(T) <= MaxHeaders },
                      v \in InboundValues }
    IN  others \cup
        { HeaderSet(h, AuthorizationHeader, a) :
            h \in others, a \in AuthorizationValues }

RemoteAddrs == { "10.0.0.7:44312" }

NoRequest == [Header |-> EmptyHeader, RemoteAddr |-> ""]
Requests == [Header : InboundHeaders, RemoteAddr : RemoteAddrs]

\* Options (proxy.go:42-48); ExtraUserHeaders maps an extra key to its values
ExtraKeyTenant == <<"t","e","n","a","n","t">>

ExtraUserHeadersChoices ==
    { EmptyExtra,
      [k \in {UserHeaderClientIPKey, ExtraKeyTenant} |->
          IF k = UserHeaderClientIPKey THEN <<"static-a", "static-b">>
          ELSE <<"acme">>] }

OptionsChoices ==
    [ DisableImpersonation : BOOLEAN,
      TokenReview : BOOLEAN,
      ExtraUserHeaders : ExtraUserHeadersChoices,
      ExtraUserHeadersClientIPEnabled : BOOLEAN ]

\* restConfig.BearerToken: the proxy's own bearer credential, "" when the
\* proxy authenticates to the API server with a client certificate
ProxyBearerTokens == { "", "proxy-sa-token" }

(* ------------------------------- state --------------------------------- *)

VARIABLES
    options,                \* p.options
    restConfig,             \* p.restConfig
    clientTransport,        \* p.clientTransport
    noAuthClientTransport,  \* p.noAuthClientTransport
    phase,                  \* "new", "failed" (Run returned an error), "serving",
                            \* "draining" (shutting down), "stopped" (waitCh closed)
    discovery,              \* the authenticator's verifier: "pending", "failed"
                            \* (last attempt failed, retrying) or "done"
    timedOut,               \* the shutdown timeout of serve has expired
    pc,                     \* per connection: where its request is
    req,                    \* per connection: the inbound request
    reqCpy,                 \* per connection: RoundTrip's clone of it
    authn,                  \* per connection: result of AuthenticateRequest
    reviews,                \* per connection: results of the Review calls made
    upstream,               \* per connection: the round trips sent upstream
    rtErr,                  \* per connection: the error RoundTrip returned
    resp                    \* per connection: the response written to the client

connVars == <<pc, req, reqCpy, authn, reviews, upstream, rtErr, resp>>
proxyVars == <<options, restConfig, clientTransport, noAuthClientTransport, phase,
               discovery, timedOut>>
vars == <<options, restConfig, clientTransport, noAuthClientTransport, phase,
          discovery, timedOut,
          pc, req, reqCpy, authn, reviews, upstream, rtErr, resp>>

NoAuthn == [info |-> NoInfo, ok |-> FALSE, err |-> Nil]
NoResponse == [code |-> 0, body |-> ""]

\* New (proxy.go:63-92): the proxy is constructed, its transports unset;
\* oidc.New has returned the authenticator and left the discovery of the
\* issuer to a goroutine of its own
Init ==
    /\ discovery = "pending"
    /\ timedOut = FALSE
    /\ options \in OptionsChoices
    /\ restConfig \in [BearerToken : ProxyBearerTokens]
    /\ clientTransport = Nil
    /\ noAuthClientTransport = Nil
    /\ phase = "new"
    /\ pc = [c \in Conns |-> "idle"]
    /\ req = [c \in Conns |-> NoRequest]
    /\ reqCpy = [c \in Conns |-> NoRequest]
    /\ authn = [c \in Conns |-> NoAuthn]
    /\ reviews = [c \in Conns |-> <<>>]
    /\ upstream = [c \in Conns |-> <<>>]
    /\ rtErr = [c \in Conns |-> Nil]
    /\ resp = [c \in Conns |-> NoResponse]

(* ------------------------------ startup -------------------------------- *)

\* the points at which Run can fail
RunFailures == { "none", "clientRT", "noAuthRT", "url", "serve" }

\* Run building the passthrough transport under disable_impersonation only
RunNoAuthForDisableOnly(fail) ==
    /\ phase = "new"
    /\ fail = "noAuthRT" => options.DisableImpersonation
    /\ clientTransport' = IF fail = "clientRT" THEN Nil ELSE "clientRT"
    /\ noAuthClientTransport' =
          IF fail \notin {"clientRT", "noAuthRT"} /\ options.DisableImpersonation
          THEN "noAuthClientRT"
          ELSE Nil
    /\ phase' = IF fail = "none" THEN "serving" ELSE "failed"
    /\ UNCHANGED <<options, restConfig, discovery, timedOut, connVars>>

\* Proxy.Run (proxy.go:94-137)
Run(fail) ==
    /\ phase = "new"
    /\ fail = "noAuthRT" => (options.DisableImpersonation \/ options.TokenReview)
    /\ clientTransport' = IF fail = "clientRT" THEN Nil ELSE "clientRT"
    /\ noAuthClientTransport' =
          IF /\ fail \notin {"clientRT", "noAuthRT"}
             /\ (options.DisableImpersonation \/ options.TokenReview)
          THEN "noAuthClientRT"
          ELSE Nil
    /\ phase' = IF fail = "none" THEN "serving" ELSE "failed"
    /\ UNCHANGED <<options, restConfig, discovery, timedOut, connVars>>

\* the goroutine oidc.New (proxy.go:69) started: it tries to discover the
\* issuer and to set the verifier until it succeeds once; a failed attempt is
\* logged and repeated
InitVerifier(ok) ==
    /\ discovery # "done"
    /\ discovery' = IF ok THEN "done" ELSE "failed"
    /\ discovery' # discovery
    /\ UNCHANGED <<options, restConfig, clientTransport, noAuthClientTransport,
                   phase, timedOut, connVars>>

(* --------------------------- authentication ---------------------------- *)

\* the OIDC verifier (p.tokenAuther.AuthenticateToken): a token of the issuer
\* resolves to its user, or fails when the keys cannot be fetched; any other
\* token is rejected, with or without an error
AuthenticateToken(token, initialized) ==
    IF ~initialized
    THEN { [info |-> NoInfo, ok |-> FALSE, err |-> errNotInitialized] }
    ELSE IF token \in DOMAIN TokenUsers
    THEN { [info |-> TokenUsers[token], ok |-> TRUE, err |-> Nil],
           [info |-> NoInfo, ok |-> FALSE, err |-> errVerifier] }
    ELSE { [info |-> NoInfo, ok |-> FALSE, err |-> errVerifier],
           [info |-> NoInfo, ok |-> FALSE, err |-> Nil] }

\* the scheme word of an Authorization value, lower-cased
IsBearerScheme(word) == word \in { "Bearer", "bearer", "BEARER" }

\* p.oidcRequestAuther.AuthenticateRequest (bearertoken.Authenticator): the
\* possible results, each with the header the request is left with.  A request
\* without a bearer token, or with an empty one, is (nil, false, nil); a
\* successful authentication
\* deletes Authorization from the request it was given; a token the verifier
\* rejected without an error gets bearertoken's own error.
AuthenticateRequest(header, initialized) ==
    LET auth == HeaderGet(header, AuthorizationHeader)
    IN  IF Len(auth) < 2 \/ ~IsBearerScheme(auth[1]) \/ auth[2] = ""
        THEN { [info |-> NoInfo, ok |-> FALSE, err |-> Nil, Header |-> header] }
        ELSE { [info |-> r.info,
                ok |-> r.ok,
                err |-> IF ~r.ok /\ r.err = Nil THEN errInvalidToken ELSE r.err,
                Header |-> IF r.ok THEN HeaderDel(header, AuthorizationHeader)
                           ELSE header] :
               r \in AuthenticateToken(auth[2], initialized) }

\* utilnet.CloneRequest (proxy.go:152): a copy with its own header map
CloneRequest(r) == [Header |-> r.Header, RemoteAddr |-> r.RemoteAddr]

\* ok, err := p.tokenReviewer.Review(req) (proxy.go:248): any verdict, with
\* or without an error
ReviewOutcomes == [ok : BOOLEAN, err : {Nil, errReview}]

(* ------------------------- impersonation gate -------------------------- *)

\* hasImpersonation comparing the header names as they are, without ToLower
hasImpersonationCaseSensitive(header) ==
    \E h \in DOMAIN header :
        \/ h = ImpersonateUserHeader
        \/ h = ImpersonateGroupHeader
        \/ HasPrefix(h, ImpersonateUserExtraHeaderPrefix)

\* hasImpersonation taking every name that starts with impersonate-
hasImpersonationAnyName(header) ==
    \E h \in DOMAIN header :
        HasPrefix(ToLower(h), <<"i","m","p","e","r","s","o","n","a","t","e","-">>)

\* Proxy.hasImpersonation (proxy.go:266-277)
hasImpersonation(header) ==
    \E h \in DOMAIN header :
        \/ ToLower(h) = impersonateUserHeader
        \/ ToLower(h) = impersonateGroupHeader
        \/ HasPrefix(ToLower(h), impersonateExtraHeader)

\* groups appending the builtin group without looking for it
groupsAlwaysAppend(user) == Append(user.Groups, AllAuthenticated)

\* proxy.go:193-204: ensure group contains allauthenticated builtin
groups(user) ==
    IF \E i \in 1..Len(user.Groups) : user.Groups[i] = AllAuthenticated
    THEN user.Groups
    ELSE Append(user.Groups, AllAuthenticated)

\* extra[k] = append(extra[k], vs...) for a non-empty vs
ExtraAppend(e, k, vs) ==
    IF vs = <<>> THEN e
    ELSE [n \in (DOMAIN e) \cup {k} |->
            IF n = k
            THEN (IF k \in DOMAIN e THEN e[k] ELSE <<>>) \o vs
            ELSE e[n]]

\* extra assigning the configured values to the key, extra[k] = vs, instead
\* of appending them
extraStaticOverwrites(user, r, opts) ==
    LET e0 == user.Extra
        e1 == IF opts.ExtraUserHeadersClientIPEnabled
              THEN ExtraAppend(e0, UserHeaderClientIPKey, <<r.RemoteAddr>>)
              ELSE e0
        cfg == opts.ExtraUserHeaders
    IN  [n \in (DOMAIN e1) \cup {k \in DOMAIN cfg : cfg[k] # <<>>} |->
            IF n \in DOMAIN cfg /\ cfg[n] # <<>> THEN cfg[n] ELSE e1[n]]

\* proxy.go:206-229: the user's extra, the remote address when the client IP
\* option is set, then the configured extra user headers
extra(user, r, opts) ==
    LET e0 == user.Extra
        e1 == IF opts.ExtraUserHeadersClientIPEnabled
              THEN ExtraAppend(e0, UserHeaderClientIPKey, <<r.RemoteAddr>>)
              ELSE e0
        cfg == opts.ExtraUserHeaders
    IN  [n \in (DOMAIN e1) \cup {k \in DOMAIN cfg : cfg[k] # <<>>} |->
            (IF n \in DOMAIN e1 THEN e1[n] ELSE <<>>) \o
            (IF n \in DOMAIN cfg THEN cfg[n] ELSE <<>>)]

\* proxy.go:231-236: transport.ImpersonationConfig
conf(user, r, opts) ==
    [UserName |-> user.Name, Groups |-> groups(user), Extra |-> extra(user, r, opts)]

(* ----------------------------- transports ------------------------------ *)

ToUpperChar(c) ==
    IF \E i \in 1..26 : Lower[i] = c
    THEN Upper[CHOOSE i \in 1..26 : Lower[i] = c]
    ELSE c

\* textproto.CanonicalMIMEHeaderKey, which Header.Add and Header.Set apply to
\* the key: upper case at the start and after "-", lower case elsewhere
CanonicalMIMEHeaderKey(s) ==
    [i \in 1..Len(s) |->
        IF i = 1 \/ s[i - 1] = "-" THEN ToUpperChar(s[i]) ELSE ToLowerChar(s[i])]

\* client-go headerKeyEscape: percent-encode the bytes not legal in a header key
EscapeChar(c) ==
    CASE c = "%" -> <<"%", "2", "5">>
      [] c = " " -> <<"%", "2", "0">>
      [] c = "/" -> <<"%", "2", "F">>
      [] OTHER   -> <<c>>

RECURSIVE headerKeyEscape(_)
headerKeyEscape(key) ==
    IF key = <<>> THEN <<>>
    ELSE EscapeChar(Head(key)) \o headerKeyEscape(Tail(key))

\* Header.Add of each value in turn
RECURSIVE HeaderAddAll(_, _, _)
HeaderAddAll(h, k, vs) ==
    IF vs = <<>> THEN h
    ELSE HeaderAddAll(HeaderAdd(h, k, <<Head(vs)>>), k, Tail(vs))

\* the orders in which a range over a map can visit its keys
KeyOrders(S) ==
    { o \in [1..Cardinality(S) -> S] :
        \A i, j \in 1..Cardinality(S) : i # j => o[i] # o[j] }

\* the values vs of an extra key as the values of a header
HeaderValues(vs) == [i \in 1..Len(vs) |-> <<vs[i]>>]

\* req.Header[ImpersonateUserExtraHeaderPrefix+headerKeyEscape(k)] = vv for
\* the keys of e in the given order: the map entry is assigned, under the key
\* as it is written
RECURSIVE AddExtraHeaders(_, _, _)
AddExtraHeaders(h, e, order) ==
    IF order = <<>> THEN h
    ELSE LET name == ImpersonateUserExtraHeaderPrefix \o headerKeyEscape(Head(order))
         IN  AddExtraHeaders(
                [n \in (DOMAIN h) \cup {name} |->
                    IF n = name THEN HeaderValues(e[Head(order)]) ELSE h[n]],
                e, Tail(order))

\* transport.NewImpersonatingRoundTripper(conf, delegate).RoundTrip
\* (proxy.go:238-241): the headers it hands to its delegate.  A request that
\* already has Impersonate-User is handed over as it is.
ImpersonatingRoundTripper(header, cf) ==
    IF Len(HeaderGet(header, ImpersonateUserHeader)) # 0
    THEN { header }
    ELSE LET h1 == HeaderSet(header, CanonicalMIMEHeaderKey(ImpersonateUserHeader),
                             <<cf.UserName>>)
             h2 == HeaderAddAll(h1, CanonicalMIMEHeaderKey(ImpersonateGroupHeader),
                                cf.Groups)
         IN  { AddExtraHeaders(h2, cf.Extra, o) : o \in KeyOrders(DOMAIN cf.Extra) }

\* p.clientTransport (proxy.go:96-100, 314-339): the round tripper built from
\* restConfig puts the proxy's bearer token on a request that has no
\* Authorization of its own
clientRT(header, cfg) ==
    IF cfg.BearerToken # "" /\ Len(HeaderGet(header, AuthorizationHeader)) = 0
    THEN HeaderSet(header, AuthorizationHeader, <<"Bearer", cfg.BearerToken>>)
    ELSE header

\* p.noAuthClientTransport (proxy.go:103-118): TLS only, no credentials
noAuthClientRT(header) == header

\* one round trip as the API server receives it
OnWire(transport, header, cfg) ==
    [ transport |-> transport,
      Header |-> IF transport = "clientRT" THEN clientRT(header, cfg)
                 ELSE noAuthClientRT(header) ]

(* ----------------------------- responses ------------------------------- *)

\* Error without the case of errNoName, which falls to the default
ErrorNoNameUnhandled(err) ==
    IF err = Nil
    THEN [code |-> 500, body |-> ""]
    ELSE CASE err = errUnauthorized ->
                [code |-> 401, body |-> "Unauthorized"]
           [] err = errImpersonateHeader ->
                [code |-> 403,
                 body |-> "Impersonation requests are disabled when using kube-oidc-proxy"]
           [] OTHER ->
                [code |-> 500, body |-> ""]

\* Proxy.Error (proxy.go:279-312): the status and body written for an error
Error(err) ==
    IF err = Nil
    THEN [code |-> 500, body |-> ""]
    ELSE CASE err = errUnauthorized ->
                [code |-> 401, body |-> "Unauthorized"]
           [] err = errImpersonateHeader ->
                [code |-> 403,
                 body |-> "Impersonation requests are disabled when using kube-oidc-proxy"]
           [] err = errNoName ->
                [code |-> 403,
                 body |-> "Username claim not available in OIDC Issuer response"]
           [] OTHER ->
                [code |-> 500, body |-> ""]

\* the errors Proxy.Error can be handed
Errors == { Nil, errUnauthorized, errImpersonateHeader, errNoName,
            errTransport, errInvalidToken, errVerifier, errNotInitialized,
            errReview }

\* the API server's answer, copied to the client by the reverse proxy
UpstreamResponse == [code |-> 200, body |-> "upstream"]

(* ---------------------------- request path ----------------------------- *)

\* RoundTrip returns (nil, err): the reverse proxy will call the error handler
Return(c, err) ==
    /\ rtErr' = [rtErr EXCEPT ![c] = err]
    /\ pc' = [pc EXCEPT ![c] = "Error"]
    /\ UNCHANGED upstream

\* transport.RoundTrip(request): the request goes out; a nil transport is a
\* nil dereference
Send(c, transport, header) ==
    IF transport = Nil
    THEN /\ pc' = [pc EXCEPT ![c] = "panic"]
         /\ UNCHANGED <<upstream, rtErr>>
    ELSE /\ upstream' = [upstream EXCEPT
                            ![c] = Append(@, OnWire(transport, header, restConfig))]
         /\ pc' = [pc EXCEPT ![c] = "upstream"]
         /\ UNCHANGED rtErr

\* the reverse proxy hands an accepted request to its transport, the proxy
Receive(c, r) ==
    /\ phase = "serving"
    /\ pc[c] = "idle"
    /\ req' = [req EXCEPT ![c] = r]
    /\ pc' = [pc EXCEPT ![c] = "RoundTrip"]
    /\ UNCHANGED <<proxyVars, reqCpy, authn, reviews, upstream, rtErr, resp>>

\* Authenticate keeping the authenticated user in one field of the proxy that
\* all requests share
AuthenticateSharedUser(c) ==
    /\ pc[c] = "RoundTrip"
    /\ \E a \in AuthenticateRequest(CloneRequest(req[c]).Header, discovery = "done") :
          /\ reqCpy' = [reqCpy EXCEPT
                           ![c] = [CloneRequest(req[c]) EXCEPT !.Header = a.Header]]
          /\ authn' = [d \in Conns |-> [info |-> a.info, ok |-> a.ok, err |-> a.err]]
    /\ pc' = [pc EXCEPT ![c] = "authenticated"]
    /\ UNCHANGED <<proxyVars, req, reviews, upstream, rtErr, resp>>

\* RoundTrip, proxy.go:149-156: clone the request and authenticate the clone
Authenticate(c) ==
    /\ pc[c] = "RoundTrip"
    /\ \E a \in AuthenticateRequest(CloneRequest(req[c]).Header, discovery = "done") :
          /\ reqCpy' = [reqCpy EXCEPT
                           ![c] = [CloneRequest(req[c]) EXCEPT !.Header = a.Header]]
          /\ authn' = [authn EXCEPT
                          ![c] = [info |-> a.info, ok |-> a.ok, err |-> a.err]]
    /\ pc' = [pc EXCEPT ![c] = "authenticated"]
    /\ UNCHANGED <<proxyVars, req, reviews, upstream, rtErr, resp>>

\* RoundTripBranch pushing the original request, not the clone, through the
\* impersonating round tripper
RoundTripBranchSendsOriginal(a, r, rCpy, opts) ==
    IF a.err # Nil
    THEN IF opts.TokenReview
         THEN [do |-> "tokenReview", err |-> Nil, header |-> rCpy.Header]
         ELSE [do |-> "return", err |-> errUnauthorized, header |-> rCpy.Header]
    ELSE IF ~a.ok
    THEN [do |-> "return", err |-> errUnauthorized, header |-> rCpy.Header]
    ELSE IF opts.DisableImpersonation
    THEN [do |-> "noAuthClientTransport", err |-> Nil, header |-> r.Header]
    ELSE IF hasImpersonation(rCpy.Header)
    THEN [do |-> "return", err |-> errImpersonateHeader, header |-> rCpy.Header]
    ELSE IF a.info.Name = ""
    THEN [do |-> "return", err |-> errNoName, header |-> rCpy.Header]
    ELSE [do |-> "impersonate", err |-> Nil, header |-> r.Header]

\* RoundTripBranch returning the authenticator's error instead of
\* errUnauthorized
RoundTripBranchReturnsAuthErr(a, r, rCpy, opts) ==
    IF a.err # Nil
    THEN IF opts.TokenReview
         THEN [do |-> "tokenReview", err |-> Nil, header |-> rCpy.Header]
         ELSE [do |-> "return", err |-> a.err, header |-> rCpy.Header]
    ELSE IF ~a.ok
    THEN [do |-> "return", err |-> errUnauthorized, header |-> rCpy.Header]
    ELSE IF opts.DisableImpersonation
    THEN [do |-> "noAuthClientTransport", err |-> Nil, header |-> r.Header]
    ELSE IF hasImpersonation(rCpy.Header)
    THEN [do |-> "return", err |-> errImpersonateHeader, header |-> rCpy.Header]
    ELSE IF a.info.Name = ""
    THEN [do |-> "return", err |-> errNoName, header |-> rCpy.Header]
    ELSE [do |-> "impersonate", err |-> Nil, header |-> rCpy.Header]

\* RoundTripBranch falling back to TokenReview for every request that is not
\* authenticated, a request without a bearer token included
RoundTripBranchReviewsUnauthenticated(a, r, rCpy, opts) ==
    IF a.err # Nil \/ ~a.ok
    THEN IF opts.TokenReview
         THEN [do |-> "tokenReview", err |-> Nil, header |-> rCpy.Header]
         ELSE [do |-> "return", err |-> errUnauthorized, header |-> rCpy.Header]
    ELSE IF ~a.ok
    THEN [do |-> "return", err |-> errUnauthorized, header |-> rCpy.Header]
    ELSE IF opts.DisableImpersonation
    THEN [do |-> "noAuthClientTransport", err |-> Nil, header |-> r.Header]
    ELSE IF hasImpersonation(rCpy.Header)
    THEN [do |-> "return", err |-> errImpersonateHeader, header |-> rCpy.Header]
    ELSE IF a.info.Name = ""
    THEN [do |-> "return", err |-> errNoName, header |-> rCpy.Header]
    ELSE [do |-> "impersonate", err |-> Nil, header |-> rCpy.Header]

\* RoundTripBranch without the check of the user's name
RoundTripBranchNoNameCheck(a, r, rCpy, opts) ==
    IF a.err # Nil
    THEN IF opts.TokenReview
         THEN [do |-> "tokenReview", err |-> Nil, header |-> rCpy.Header]
         ELSE [do |-> "return", err |-> errUnauthorized, header |-> rCpy.Header]
    ELSE IF ~a.ok
    THEN [do |-> "return", err |-> errUnauthorized, header |-> rCpy.Header]
    ELSE IF opts.DisableImpersonation
    THEN [do |-> "noAuthClientTransport", err |-> Nil, header |-> r.Header]
    ELSE IF hasImpersonation(rCpy.Header)
    THEN [do |-> "return", err |-> errImpersonateHeader, header |-> rCpy.Header]
    ELSE [do |-> "impersonate", err |-> Nil, header |-> rCpy.Header]

\* RoundTripBranch forwarding the clone, which authentication stripped of
\* Authorization, when impersonation is disabled
RoundTripBranchForwardsClone(a, r, rCpy, opts) ==
    IF a.err # Nil
    THEN IF opts.TokenReview
         THEN [do |-> "tokenReview", err |-> Nil, header |-> rCpy.Header]
         ELSE [do |-> "return", err |-> errUnauthorized, header |-> rCpy.Header]
    ELSE IF ~a.ok
    THEN [do |-> "return", err |-> errUnauthorized, header |-> rCpy.Header]
    ELSE IF opts.DisableImpersonation
    THEN [do |-> "noAuthClientTransport", err |-> Nil, header |-> rCpy.Header]
    ELSE IF hasImpersonation(rCpy.Header)
    THEN [do |-> "return", err |-> errImpersonateHeader, header |-> rCpy.Header]
    ELSE IF a.info.Name = ""
    THEN [do |-> "return", err |-> errNoName, header |-> rCpy.Header]
    ELSE [do |-> "impersonate", err |-> Nil, header |-> rCpy.Header]

\* RoundTripBranch that never looks at DisableImpersonation
RoundTripBranchIgnoresDisable(a, r, rCpy, opts) ==
    IF a.err # Nil
    THEN IF opts.TokenReview
         THEN [do |-> "tokenReview", err |-> Nil, header |-> rCpy.Header]
         ELSE [do |-> "return", err |-> errUnauthorized, header |-> rCpy.Header]
    ELSE IF ~a.ok
    THEN [do |-> "return", err |-> errUnauthorized, header |-> rCpy.Header]
    ELSE IF hasImpersonation(rCpy.Header)
    THEN [do |-> "return", err |-> errImpersonateHeader, header |-> rCpy.Header]
    ELSE IF a.info.Name = ""
    THEN [do |-> "return", err |-> errNoName, header |-> rCpy.Header]
    ELSE [do |-> "impersonate", err |-> Nil, header |-> rCpy.Header]

\* RoundTrip, proxy.go:157-241: what RoundTrip does once AuthenticateRequest
\* has returned a: call tokenReview, return an error, or send a request (the
\* original r or the clone rCpy) through one of the two transports
RoundTripBranch(a, r, rCpy, opts) ==
    IF a.err # Nil
    THEN IF opts.TokenReview
         THEN [do |-> "tokenReview", err |-> Nil, header |-> rCpy.Header]
         ELSE [do |-> "return", err |-> errUnauthorized, header |-> rCpy.Header]
    ELSE IF ~a.ok
    THEN [do |-> "return", err |-> errUnauthorized, header |-> rCpy.Header]
    ELSE IF opts.DisableImpersonation
    THEN [do |-> "noAuthClientTransport", err |-> Nil, header |-> r.Header]
    ELSE IF hasImpersonation(rCpy.Header)
    THEN [do |-> "return", err |-> errImpersonateHeader, header |-> rCpy.Header]
    ELSE IF a.info.Name = ""
    THEN [do |-> "return", err |-> errNoName, header |-> rCpy.Header]
    ELSE [do |-> "impersonate", err |-> Nil, header |-> rCpy.Header]

\* Dispatch with extra aliasing the configured map: what is appended for one
\* request stays in options.ExtraUserHeaders
DispatchAliasesOptions(c) ==
    /\ pc[c] = "authenticated"
    /\ LET b == RoundTripBranch(authn[c], req[c], reqCpy[c], options)
       IN  CASE b.do = "tokenReview" ->
                  /\ pc' = [pc EXCEPT ![c] = "tokenReview"]
                  /\ UNCHANGED <<upstream, rtErr, options>>
             [] b.do = "return" ->
                  /\ Return(c, b.err)
                  /\ UNCHANGED options
             [] b.do = "noAuthClientTransport" ->
                  /\ Send(c, noAuthClientTransport, b.header)
                  /\ UNCHANGED options
             [] b.do = "impersonate" ->
                  /\ \E h \in ImpersonatingRoundTripper(
                                 b.header, conf(authn[c].info, req[c], options)) :
                         Send(c, clientTransport, h)
                  /\ options' = [options EXCEPT !.ExtraUserHeaders =
                                    extra(authn[c].info, req[c], options)]
    /\ UNCHANGED <<restConfig, clientTransport, noAuthClientTransport, phase,
                   discovery, timedOut, req, reqCpy, authn, reviews, resp>>

\* proxy.go:157-241, the step of RoundTrip after authentication: it reads
\* p.options and the transports and writes none of them
Dispatch(c) ==
    /\ pc[c] = "authenticated"
    /\ LET b == RoundTripBranch(authn[c], req[c], reqCpy[c], options)
       IN  CASE b.do = "tokenReview" ->
                  /\ pc' = [pc EXCEPT ![c] = "tokenReview"]
                  /\ UNCHANGED <<upstream, rtErr>>
             [] b.do = "return" ->
                  Return(c, b.err)
             [] b.do = "noAuthClientTransport" ->
                  Send(c, noAuthClientTransport, b.header)
             [] b.do = "impersonate" ->
                  \E h \in ImpersonatingRoundTripper(
                              b.header, conf(authn[c].info, req[c], options)) :
                      Send(c, clientTransport, h)
    /\ UNCHANGED <<proxyVars, req, reqCpy, authn, reviews, resp>>

\* tokenReviewBranch passing the request through whenever Review returned no
\* error, whatever its verdict
tokenReviewBranchIgnoresVerdict(rv, rCpy) ==
    IF rv.err = Nil
    THEN [do |-> "noAuthClientTransport", err |-> Nil, header |-> rCpy.Header]
    ELSE [do |-> "return", err |-> errUnauthorized, header |-> rCpy.Header]

\* Proxy.tokenReview, proxy.go:249-263: what it does with Review's answer rv
tokenReviewBranch(rv, rCpy) ==
    IF rv.err = Nil /\ rv.ok
    THEN [do |-> "noAuthClientTransport", err |-> Nil, header |-> rCpy.Header]
    ELSE [do |-> "return", err |-> errUnauthorized, header |-> rCpy.Header]

\* Proxy.tokenReview (proxy.go:244-264)
TokenReview(c) ==
    /\ pc[c] = "tokenReview"
    /\ \E rv \in ReviewOutcomes :
          /\ reviews' = [reviews EXCEPT ![c] = Append(@, rv)]
          /\ LET b == tokenReviewBranch(rv, reqCpy[c])
             IN  IF b.do = "noAuthClientTransport"
                 THEN Send(c, noAuthClientTransport, b.header)
                 ELSE Return(c, b.err)
    /\ UNCHANGED <<proxyVars, req, reqCpy, authn, resp>>

\* UpstreamReply going through RoundTrip's dispatch again after an error of
\* the transport
UpstreamReplyRetries(c) ==
    /\ pc[c] = "upstream"
    /\ \/ /\ resp' = [resp EXCEPT ![c] = UpstreamResponse]
          /\ pc' = [pc EXCEPT ![c] = "done"]
       \/ /\ pc' = [pc EXCEPT ![c] = "authenticated"]
          /\ UNCHANGED resp
    /\ UNCHANGED <<proxyVars, req, reqCpy, authn, reviews, upstream, rtErr>>

\* the upstream round trip ends: a response, which the reverse proxy copies
\* to the client, or a transport error, which RoundTrip returns
UpstreamReply(c) ==
    /\ pc[c] = "upstream"
    /\ \/ /\ resp' = [resp EXCEPT ![c] = UpstreamResponse]
          /\ pc' = [pc EXCEPT ![c] = "done"]
          /\ UNCHANGED rtErr
       \/ /\ rtErr' = [rtErr EXCEPT ![c] = errTransport]
          /\ pc' = [pc EXCEPT ![c] = "Error"]
          /\ UNCHANGED resp
    /\ UNCHANGED <<proxyVars, req, reqCpy, authn, reviews, upstream>>

\* the reverse proxy calls its ErrorHandler, p.Error (proxy.go:129), with the
\* error RoundTrip returned
ErrorHandler(c) ==
    /\ pc[c] = "Error"
    /\ resp' = [resp EXCEPT ![c] = Error(rtErr[c])]
    /\ pc' = [pc EXCEPT ![c] = "done"]
    /\ UNCHANGED <<proxyVars, req, reqCpy, authn, reviews, upstream, rtErr>>

\* Proxy.Error is exported: a caller other than the reverse proxy can hand it
\* any error, nil included (proxy.go:280-284)
ErrorCalled(c, err) ==
    /\ pc[c] = "idle"
    /\ rtErr' = [rtErr EXCEPT ![c] = err]
    /\ resp' = [resp EXCEPT ![c] = Error(err)]
    /\ pc' = [pc EXCEPT ![c] = "called"]
    /\ UNCHANGED <<proxyVars, req, reqCpy, authn, reviews, upstream>>

\* the response is written; the connection is ready for its next request
Finish(c) ==
    /\ pc[c] \in {"done", "called"}
    /\ pc' = [pc EXCEPT ![c] = "idle"]
    /\ req' = [req EXCEPT ![c] = NoRequest]
    /\ reqCpy' = [reqCpy EXCEPT ![c] = NoRequest]
    /\ authn' = [authn EXCEPT ![c] = NoAuthn]
    /\ reviews' = [reviews EXCEPT ![c] = <<>>]
    /\ upstream' = [upstream EXCEPT ![c] = <<>>]
    /\ rtErr' = [rtErr EXCEPT ![c] = Nil]
    /\ resp' = [resp EXCEPT ![c] = NoResponse]
    /\ UNCHANGED proxyVars

(* ------------------------------ shutdown ------------------------------- *)

\* secureServingInfo.Serve(proxyHandler, time.Second*60, stopCh), proxy.go:141:
\* the server receives from stopCh and begins its shutdown with a timeout of
\* 60 seconds; the listener is closed, connections are served on
Stop ==
    /\ phase = "serving"
    /\ phase' = "draining"
    /\ UNCHANGED <<options, restConfig, clientTransport, noAuthClientTransport,
                   discovery, timedOut, connVars>>

\* the 60 seconds of proxy.go:141 have passed since the shutdown began
Timeout ==
    /\ phase = "draining"
    /\ ~timedOut
    /\ timedOut' = TRUE
    /\ UNCHANGED <<options, restConfig, clientTransport, noAuthClientTransport,
                   phase, discovery, connVars>>

\* ShutdownReturns closing waitCh as soon as the shutdown has begun
ShutdownReturnsAtOnce ==
    /\ phase = "draining"
    /\ phase' = "stopped"
    /\ UNCHANGED <<options, restConfig, clientTransport, noAuthClientTransport,
                   discovery, timedOut, connVars>>

\* the shutdown returns, when no connection has a request in flight or when
\* the timeout has expired, and waitCh (proxy.go:141, 131-136) is closed
ShutdownReturns ==
    /\ phase = "draining"
    /\ timedOut \/ \A c \in Conns : pc[c] = "idle"
    /\ phase' = "stopped"
    /\ UNCHANGED <<options, restConfig, clientTransport, noAuthClientTransport,
                   discovery, timedOut, connVars>>

(* --------------------------- specifications ---------------------------- *)

\* one connection: its requests are handled one after the other
Next ==
    \/ \E fail \in RunFailures : Run(fail)
    \/ \E ok \in BOOLEAN : InitVerifier(ok)
    \/ \E r \in Requests : Receive(1, r)
    \/ Authenticate(1)
    \/ Dispatch(1)
    \/ TokenReview(1)
    \/ UpstreamReply(1)
    \/ ErrorHandler(1)
    \/ \E err \in Errors : ErrorCalled(1, err)
    \/ Finish(1)

Spec == Init /\ [][Next]_vars

\* the requests of the connections served in parallel
ConcHeaders ==
    { HeaderSet(EmptyHeader, AuthorizationHeader, <<"Bearer", "tokAlice">>),
      HeaderSet(EmptyHeader, AuthorizationHeader, <<"bearer", "tokBad">>),
      HeaderSet(HeaderSet(EmptyHeader, HdrImpersonateUser, <<"x">>),
                AuthorizationHeader, <<"Bearer", "tokAlice">>) }
ConcRequests == [Header : ConcHeaders, RemoteAddr : RemoteAddrs]

\* every connection has its own execution context (proxy.go:139-147): the
\* steps of the requests of different connections interleave
NextConc ==
    \/ \E fail \in RunFailures : Run(fail)
    \/ \E ok \in BOOLEAN : InitVerifier(ok)
    \/ \E c \in Conns :
          \/ \E r \in ConcRequests : Receive(c, r)
          \/ Authenticate(c)
          \/ Dispatch(c)
          \/ TokenReview(c)
          \/ UpstreamReply(c)
          \/ ErrorHandler(c)
          \/ Finish(c)

SpecConc == Init /\ [][NextConc]_vars

\* the proxy with its shutdown: the timer of the shutdown fires and the
\* shutdown returns when it can
ShutdownRequests ==
    [Header : { HeaderSet(EmptyHeader, AuthorizationHeader, <<"Bearer", "tokAlice">>) },
     RemoteAddr : RemoteAddrs]

NextShutdown ==
    \/ \E fail \in RunFailures : Run(fail)
    \/ \E ok \in BOOLEAN : InitVerifier(ok)
    \/ \E c \in Conns :
          \/ \E r \in ShutdownRequests : Receive(c, r)
          \/ Authenticate(c)
          \/ Dispatch(c)
          \/ TokenReview(c)
          \/ UpstreamReply(c)
          \/ ErrorHandler(c)
          \/ Finish(c)
    \/ Stop
    \/ Timeout
    \/ ShutdownReturns

SpecShutdown ==
    Init /\ [][NextShutdown]_vars /\ WF_vars(Timeout) /\ WF_vars(ShutdownReturns)

(* ------------------------------- claims -------------------------------- *)

\* the inbound header names that are impersonation headers when compared
\* case-insensitively
ImpersonationNames ==
    { HdrImpersonateUser, HdrImpersonateGroupLower, HdrImpersonateExtraScopes }

CarriesImpersonation(c) == (DOMAIN req[c].Header) \cap ImpersonationNames # {}

ImpersonationResponse ==
    [code |-> 403,
     body |-> "Impersonation requests are disabled when using kube-oidc-proxy"]
UnauthorizedResponse == [code |-> 401, body |-> "Unauthorized"]
NoNameResponse ==
    [code |-> 403, body |-> "Username claim not available in OIDC Issuer response"]

\* RoundTrip has returned or has a round trip in flight
Decided(c) == pc[c] \in {"upstream", "Error", "done"}

\* the last Review call of the request said authenticated, without error
ReviewAdmitted(c) ==
    /\ reviews[c] # <<>>
    /\ reviews[c][Len(reviews[c])].ok
    /\ reviews[c][Len(reviews[c])].err = Nil

\* the inbound request presents a bearer token
PresentsBearer(c) ==
    LET auth == HeaderGet(req[c].Header, AuthorizationHeader)
    IN  Len(auth) >= 2 /\ auth[1] \in {"Bearer", "bearer", "BEARER"} /\ auth[2] # ""

\* C1 as stated: every request that carries an impersonation header is
\* rejected with the impersonation 403 and never forwarded, in every
\* configuration and whatever the authentication outcome
C1_AlwaysRejected ==
    \A c \in Conns :
        CarriesImpersonation(c) =>
            /\ upstream[c] = <<>>
            /\ pc[c] = "done" => resp[c] = ImpersonationResponse

\* C1 amended: a request that carries an impersonation header is never sent
\* through the impersonating transport; when OIDC authentication succeeded
\* and disable_impersonation is off, RoundTrip returns errImpersonateHeader,
\* nothing is forwarded and the response is the impersonation 403
C1_RejectedWhenImpersonating ==
    \A c \in Conns :
        CarriesImpersonation(c) =>
            /\ \A i \in 1..Len(upstream[c]) : upstream[c][i].transport # "clientRT"
            /\ (Decided(c) /\ authn[c].ok /\ ~options.DisableImpersonation) =>
                  /\ upstream[c] = <<>>
                  /\ rtErr[c] = errImpersonateHeader
                  /\ pc[c] = "done" => resp[c] = ImpersonationResponse

C1_Witness ==
    \E c \in Conns :
        /\ HdrImpersonateGroupLower \in DOMAIN req[c].Header
        /\ authn[c].ok
        /\ pc[c] = "done"
        /\ resp[c] = ImpersonationResponse

\* the Authorization the proxy's own credentials put on a request
ProxyAuthorization ==
    IF restConfig.BearerToken = "" THEN <<>>
    ELSE <<"Bearer", restConfig.BearerToken>>

\* C2 as stated: every outbound request that carries Impersonate-User has the
\* proxy's credentials, never the client's Authorization
C2_ImpersonateUserMeansProxyCredentials ==
    \A c \in Conns : \A i \in 1..Len(upstream[c]) :
        ImpersonateUserHeader \in DOMAIN upstream[c][i].Header =>
            HeaderGet(upstream[c][i].Header, AuthorizationHeader) = ProxyAuthorization

\* C2 amended: every request sent through the impersonating transport carries
\* the Impersonate-User the proxy set and the proxy's own Authorization (none
\* when the proxy has no bearer token), never the client's
C2_ImpersonatingTransportProxyCredentials ==
    \A c \in Conns : \A i \in 1..Len(upstream[c]) :
        upstream[c][i].transport = "clientRT" =>
            /\ upstream[c][i].Header[ImpersonateUserHeader] = << <<authn[c].info.Name>> >>
            /\ HeaderGet(upstream[c][i].Header, AuthorizationHeader) = ProxyAuthorization
            /\ AuthorizationHeader \in DOMAIN upstream[c][i].Header =>
                  Len(upstream[c][i].Header[AuthorizationHeader]) = 1
            /\ HeaderGet(upstream[c][i].Header, AuthorizationHeader)
                  # HeaderGet(req[c].Header, AuthorizationHeader)

C2_Witness ==
    \E c \in Conns :
        /\ upstream[c] # <<>>
        /\ upstream[c][1].transport = "clientRT"
        /\ HeaderGet(req[c].Header, AuthorizationHeader) = <<"Bearer", "tokAlice">>
        /\ HeaderGet(upstream[c][1].Header, AuthorizationHeader)
              = <<"Bearer", "proxy-sa-token">>

\* C3: a request has a round trip to the upstream only after its
\* authentication ended with a positive verdict, from the OIDC verifier or
\* from TokenReview; before AuthenticateRequest has returned, and for a
\* request whose authentication did not succeed, there is none
C3_AuthenticationBeforeForwarding ==
    \A c \in Conns :
        /\ pc[c] \in {"idle", "RoundTrip", "authenticated", "tokenReview"} =>
              upstream[c] = <<>>
        /\ upstream[c] # <<>> =>
              \/ authn[c].ok /\ authn[c].err = Nil
              \/ ~authn[c].ok /\ ReviewAdmitted(c)

C3_Witness ==
    \E c \in Conns :
        /\ upstream[c] # <<>>
        /\ ~authn[c].ok
        /\ ReviewAdmitted(c)

\* C4: every authentication failure (no bearer token, a token the verifier
\* rejected, a TokenReview that said no, a TokenReview that failed) ends in
\* the same response, 401 with body "Unauthorized"
C4_UniformUnauthorized ==
    \A c \in Conns :
        (~authn[c].ok /\ ~ReviewAdmitted(c)) =>
            /\ pc[c] = "Error" => rtErr[c] = errUnauthorized
            /\ pc[c] = "done" => resp[c] = UnauthorizedResponse

C4_Witness ==
    \E c \in Conns :
        /\ pc[c] = "done"
        /\ reviews[c] # <<>>
        /\ reviews[c][1].err = errReview
        /\ resp[c] = UnauthorizedResponse

\* C5: Review is called exactly when the verifier failed on a presented bearer
\* token and token_review is on; when it admits the token the request goes out
\* on the passthrough transport with the inbound headers, Authorization
\* included; otherwise the outcome is Unauthorized and nothing is forwarded
C5_TokenReviewFallback ==
    \A c \in Conns :
        /\ reviews[c] # <<>> =>
              /\ Len(reviews[c]) = 1
              /\ PresentsBearer(c) /\ ~authn[c].ok /\ options.TokenReview
        /\ (Decided(c) /\ PresentsBearer(c) /\ ~authn[c].ok /\ options.TokenReview) =>
              reviews[c] # <<>>
        /\ (Decided(c) /\ reviews[c] # <<>> /\ ReviewAdmitted(c)) =>
              /\ upstream[c] = << [transport |-> "noAuthClientRT",
                                   Header |-> req[c].Header] >>
              /\ AuthorizationHeader \in DOMAIN upstream[c][1].Header
        /\ (Decided(c) /\ reviews[c] # <<>> /\ ~ReviewAdmitted(c)) =>
              /\ upstream[c] = <<>>
              /\ rtErr[c] = errUnauthorized
              /\ pc[c] = "done" => resp[c] = UnauthorizedResponse

C5_Witness ==
    \E c \in Conns :
        /\ ReviewAdmitted(c)
        /\ pc[c] = "done"
        /\ HeaderGet(upstream[c][1].Header, AuthorizationHeader) = <<"bearer", "tokBad">>
        /\ resp[c] = UpstreamResponse

\* C6 as stated: a verified token with an empty user name gets the 403 with
\* the username body and no upstream call, in every configuration
C6_EmptyNameAlwaysRejected ==
    \A c \in Conns :
        (Decided(c) /\ authn[c].ok /\ authn[c].info.Name = "") =>
            /\ upstream[c] = <<>>
            /\ pc[c] = "done" => resp[c] = NoNameResponse

\* C6 amended: with disable_impersonation off, a verified token with an empty
\* user name is never forwarded; the response is the 403 with the username
\* body when the request carries no impersonation header, and the
\* impersonation 403 when it does
C6_EmptyNameRejectedWhenImpersonating ==
    \A c \in Conns :
        (Decided(c) /\ authn[c].ok /\ authn[c].info.Name = ""
            /\ ~options.DisableImpersonation) =>
            /\ upstream[c] = <<>>
            /\ rtErr[c] = IF CarriesImpersonation(c) THEN errImpersonateHeader
                          ELSE errNoName
            /\ pc[c] = "done" =>
                  resp[c] = IF CarriesImpersonation(c) THEN ImpersonationResponse
                            ELSE NoNameResponse

C6_Witness ==
    \E c \in Conns :
        /\ authn[c].ok
        /\ authn[c].info.Name = ""
        /\ pc[c] = "done"
        /\ resp[c] = NoNameResponse

\* C7: on the impersonating transport the Impersonate-Group values are the
\* user's groups in order, with system:authenticated appended exactly when the
\* user's groups do not contain it
C7_AllAuthenticatedGroup ==
    \A c \in Conns : \A i \in 1..Len(upstream[c]) :
        upstream[c][i].transport = "clientRT" =>
            /\ ImpersonateGroupHeader \in DOMAIN upstream[c][i].Header
            /\ LET vals == upstream[c][i].Header[ImpersonateGroupHeader]
                   g == authn[c].info.Groups
                   had == \E j \in 1..Len(g) : g[j] = AllAuthenticated
               IN  /\ \E j \in 1..Len(vals) : vals[j] = <<AllAuthenticated>>
                   /\ Len(vals) = Len(g) + (IF had THEN 0 ELSE 1)
                   /\ \A j \in 1..Len(g) : vals[j] = <<g[j]>>
                   /\ ~had => vals[Len(vals)] = <<AllAuthenticated>>

C7_Witness ==
    \E c \in Conns :
        /\ upstream[c] # <<>>
        /\ upstream[c][1].transport = "clientRT"
        /\ authn[c].info.Groups = <<AllAuthenticated, "ops">>
        /\ upstream[c][1].Header[ImpersonateGroupHeader]
              = << <<AllAuthenticated>>, <<"ops">> >>

\* C8: with disable_impersonation on and a successful authentication, the one
\* request sent upstream goes on the passthrough transport with exactly the
\* inbound headers, the client's Authorization included; only the clone lost it
C8_DisabledImpersonationFidelity ==
    \A c \in Conns :
        (Decided(c) /\ options.DisableImpersonation /\ authn[c].ok) =>
            /\ upstream[c] = << [transport |-> "noAuthClientRT",
                                 Header |-> req[c].Header] >>
            /\ AuthorizationHeader \in DOMAIN upstream[c][1].Header
            /\ AuthorizationHeader \notin DOMAIN reqCpy[c].Header

C8_Witness ==
    \E c \in Conns :
        /\ options.DisableImpersonation
        /\ authn[c].ok
        /\ pc[c] = "done"
        /\ HeaderGet(upstream[c][1].Header, AuthorizationHeader) = <<"Bearer", "tokAlice">>
        /\ HdrAccept \in DOMAIN upstream[c][1].Header

\* C9: a forwarded request is on the impersonating transport exactly when OIDC
\* authentication succeeded with disable_impersonation off, and then carries
\* the verified user's name as Impersonate-User; it is on the passthrough
\* transport exactly when OIDC authentication succeeded with
\* disable_impersonation on or TokenReview admitted the request
C9_TransportSelection ==
    \A c \in Conns : \A i \in 1..Len(upstream[c]) :
        LET out == upstream[c][i]
        IN  /\ out.transport \in {"clientRT", "noAuthClientRT"}
            /\ out.transport = "clientRT" <=>
                  (authn[c].ok /\ ~options.DisableImpersonation)
            /\ out.transport = "noAuthClientRT" <=>
                  \/ authn[c].ok /\ options.DisableImpersonation
                  \/ ~authn[c].ok /\ ReviewAdmitted(c)
            /\ out.transport = "clientRT" =>
                  /\ authn[c].info.Name # ""
                  /\ HeaderGet(out.Header, ImpersonateUserHeader) = <<authn[c].info.Name>>
                  /\ ImpersonateGroupHeader \in DOMAIN out.Header

C9_Witness ==
    \E c \in Conns :
        /\ options.TokenReview
        /\ ~options.DisableImpersonation
        /\ upstream[c] # <<>>
        /\ upstream[c][1].transport = "clientRT"
        /\ HeaderGet(upstream[c][1].Header, ImpersonateUserHeader) = <<"carol">>

\* C10: the error handler writes 401 "Unauthorized" for errUnauthorized, the
\* impersonation 403 for errImpersonateHeader, the username 403 for errNoName,
\* and 500 with an empty body for every other error and for no error
C10_ErrorMapping ==
    \A c \in Conns :
        (pc[c] = "called" \/ (pc[c] = "done" /\ rtErr[c] # Nil)) =>
            /\ rtErr[c] = errUnauthorized => resp[c] = UnauthorizedResponse
            /\ rtErr[c] = errImpersonateHeader => resp[c] = ImpersonationResponse
            /\ rtErr[c] = errNoName => resp[c] = NoNameResponse
            /\ rtErr[c] \notin {errUnauthorized, errImpersonateHeader, errNoName} =>
                  resp[c] = [code |-> 500, body |-> ""]

C10_Witness ==
    \E c \in Conns :
        /\ pc[c] = "called"
        /\ rtErr[c] = Nil
        /\ resp[c] = [code |-> 500, body |-> ""]

\* the extra keys of the users and of the configuration
ExtraKeys == { UserHeaderClientIPKey, ExtraKeyTenant }

\* the names of the headers of h that are the Impersonate-Extra- header of
\* extra key k, header names being case-insensitive
ExtraHeaderNames(h, k) ==
    { n \in DOMAIN h : ToLower(n) = ToLower(ImpersonateUserExtraHeaderPrefix \o k) }

ExtraValuesOut(h, k) ==
    IF ExtraHeaderNames(h, k) = {} THEN <<>>
    ELSE h[CHOOSE n \in ExtraHeaderNames(h, k) : TRUE]

\* the user's values of key k, the remote address for Remote-Client-IP when
\* the option is on, the configured values of k
ExtraValuesExpected(c, k) ==
    LET u == authn[c].info.Extra
        cfg == options.ExtraUserHeaders
    IN  (IF k \in DOMAIN u THEN u[k] ELSE <<>>) \o
        (IF k = UserHeaderClientIPKey /\ options.ExtraUserHeadersClientIPEnabled
         THEN <<req[c].RemoteAddr>> ELSE <<>>) \o
        (IF k \in DOMAIN cfg THEN cfg[k] ELSE <<>>)

\* C11: on the impersonating transport the values of every extra key are the
\* user's values, then the remote address (for Remote-Client-IP, with the
\* client IP option on), then the configured values in configured order; there
\* is one header per key and no other Impersonate-Extra- header
C11_ExtrasAdditiveInOrder ==
    \A c \in Conns : \A i \in 1..Len(upstream[c]) :
        upstream[c][i].transport = "clientRT" =>
            /\ \A k \in ExtraKeys :
                  /\ Cardinality(ExtraHeaderNames(upstream[c][i].Header, k)) <= 1
                  /\ ExtraValuesOut(upstream[c][i].Header, k)
                        = HeaderValues(ExtraValuesExpected(c, k))
            /\ \A n \in DOMAIN upstream[c][i].Header :
                  HasPrefix(ToLower(n), impersonateExtraHeader) =>
                      \E k \in ExtraKeys : n \in ExtraHeaderNames(upstream[c][i].Header, k)

C11_Witness ==
    \E c \in Conns :
        /\ upstream[c] # <<>>
        /\ upstream[c][1].transport = "clientRT"
        /\ ExtraValuesOut(upstream[c][1].Header, UserHeaderClientIPKey)
              = << <<"1.2.3.4">>, <<"10.0.0.7:44312">>, <<"static-a">>, <<"static-b">> >>
        /\ ExtraValuesOut(upstream[c][1].Header, ExtraKeyTenant) = << <<"acme">> >>

\* the token and the client of the request of connection c
Credentials(c) ==
    <<HeaderGet(req[c].Header, AuthorizationHeader), req[c].RemoteAddr>>

\* the Impersonate-User, Impersonate-Group and Impersonate-Extra- headers of h
ImpersonationHeaders(h) ==
    [n \in { m \in DOMAIN h : hasImpersonation([k \in {m} |-> h[m]]) } |-> h[n]]

Impersonated(c) ==
    /\ upstream[c] # <<>>
    /\ upstream[c][1].transport = "clientRT"

\* C12: two requests with the same token from the same client, both forwarded
\* by the impersonating transport, whether one after the other or interleaved,
\* carry the same Impersonate-User, Impersonate-Group and Impersonate-Extra-
\* headers with the same value sequences
C12_ReplayIdenticalHeaders ==
    \A c, d \in Conns :
        (Impersonated(c) /\ Impersonated(d) /\ Credentials(c) = Credentials(d)) =>
            ImpersonationHeaders(upstream[c][1].Header)
                = ImpersonationHeaders(upstream[d][1].Header)

C12_Witness ==
    \E c, d \in Conns :
        /\ c # d
        /\ pc[c] = "done"
        /\ Impersonated(c) /\ Impersonated(d)
        /\ Credentials(c) = Credentials(d)
        /\ options.ExtraUserHeadersClientIPEnabled
        /\ options.ExtraUserHeaders # EmptyExtra
        /\ ExtraValuesOut(upstream[d][1].Header, UserHeaderClientIPKey)
              = << <<"10.0.0.7:44312">>, <<"static-a">>, <<"static-b">> >>

\* the outcomes RoundTrip can have for request r when it is the only request
\* the proxy handles: a rejection, or a transport and the request on the wire
AloneOutcomes(r, opts, cfg) ==
    UNION { LET a == [info |-> ar.info, ok |-> ar.ok, err |-> ar.err]
                rCpy == [CloneRequest(r) EXCEPT !.Header = ar.Header]
                b == RoundTripBranch(a, r, rCpy, opts)
            IN  CASE b.do = "return" ->
                       { [kind |-> "rejected", err |-> b.err] }
                  [] b.do = "noAuthClientTransport" ->
                       { [kind |-> "forwarded",
                          out |-> OnWire("noAuthClientRT", b.header, cfg)] }
                  [] b.do = "impersonate" ->
                       { [kind |-> "forwarded", out |-> OnWire("clientRT", h, cfg)] :
                           h \in ImpersonatingRoundTripper(b.header, conf(a.info, r, opts)) }
                  [] b.do = "tokenReview" ->
                       { LET t == tokenReviewBranch(rv, rCpy)
                         IN  IF t.do = "return"
                             THEN [kind |-> "rejected", err |-> t.err]
                             ELSE [kind |-> "forwarded",
                                   out |-> OnWire("noAuthClientRT", t.header, cfg)] :
                           rv \in ReviewOutcomes }
          : ar \in UNION { AuthenticateRequest(CloneRequest(r).Header, i) :
                              i \in BOOLEAN } }

\* RoundTrip has rejected or forwarded the request of connection c
Handled(c) == pc[c] \in {"upstream", "Error", "done"}

Outcome(c) ==
    IF upstream[c] # <<>>
    THEN [kind |-> "forwarded", out |-> upstream[c][1]]
    ELSE [kind |-> "rejected", err |-> rtErr[c]]

\* C13: once Run has been called no step writes the options, the upstream
\* configuration or the two transports, and after every step of every
\* interleaving the outcome of each handled request is one of the outcomes the
\* request has when it is handled alone
C13_NoInterference ==
    [][ /\ phase # "new" =>
              UNCHANGED <<options, restConfig, clientTransport, noAuthClientTransport>>
        /\ \A c \in Conns :
              Handled(c)' => Outcome(c)' \in AloneOutcomes(req'[c], options', restConfig')
      ]_vars

\* two requests in flight at once, one forwarded, the other rejected
C13_Witness ==
    \E c, d \in Conns :
        /\ pc[c] = "upstream" /\ Impersonated(c)
        /\ pc[d] = "Error" /\ upstream[d] = <<>> /\ rtErr[d] = errUnauthorized
        /\ HeaderGet(req[d].Header, AuthorizationHeader) = <<"bearer", "tokBad">>

\* C14: the proxy serves, and has accepted a request, only when the discovery
\* of the issuer has succeeded; while discovery is pending or has failed it
\* does not serve
C14_ServingOnlyAfterDiscovery ==
    /\ phase = "serving" => discovery = "done"
    /\ \A c \in Conns : req[c] # NoRequest => discovery = "done"

\* connection c has a request in flight
InFlight(c) == pc[c] \notin {"idle", "called"}

\* the next step of the request of connection c
Step(c) ==
    \/ Authenticate(c)
    \/ Dispatch(c)
    \/ TokenReview(c)
    \/ UpstreamReply(c)
    \/ ErrorHandler(c)
    \/ Finish(c)

\* a step that, the shutdown begun, gives no connection a new request
NoNewRequest ==
    phase \in {"draining", "stopped"} =>
        \A c \in Conns : req[c] = NoRequest => req'[c] = NoRequest

ImpersonatePrefix == <<"i","m","p","e","r","s","o","n","a","t","e","-">>

\* header n of the request sent on connection c is one the impersonating round
\* tripper computed from the authenticated user and the configuration
ComputedByProxy(c, n, values) ==
    \E h \in ImpersonatingRoundTripper(
                EmptyHeader, conf(authn[c].info, req[c], options)) :
        n \in DOMAIN h /\ h[n] = values

\* C16: on the impersonating transport every header whose name starts with
\* Impersonate-, in any case, was computed by the proxy, and none is a header
\* of the client
C16_NoClientImpersonateHeader ==
    \A c \in Conns : \A i \in 1..Len(upstream[c]) :
        upstream[c][i].transport = "clientRT" =>
            \A n \in DOMAIN upstream[c][i].Header :
                HasPrefix(ToLower(n), ImpersonatePrefix) =>
                    /\ ComputedByProxy(c, n, upstream[c][i].Header[n])
                    /\ \A m \in DOMAIN req[c].Header : ToLower(m) # ToLower(n)

\* name n, lower-cased, is impersonate-user or impersonate-group or starts
\* with impersonate-extra-
ReservedName(n) ==
    \/ ToLower(n) = ToLower(ImpersonateUserHeader)
    \/ ToLower(n) = ToLower(ImpersonateGroupHeader)
    \/ HasPrefix(ToLower(n), ToLower(ImpersonateUserExtraHeaderPrefix))

\* header h without the header of name n
WithoutHeader(h, n) == [m \in (DOMAIN h) \ {n} |-> h[m]]

\* C17: for the header h of every request RoundTrip is given,
\* hasImpersonation(h) is true exactly when h has a reserved name; giving every header other values,
\* or removing a header whose name is not reserved, leaves the result as it is;
\* and a request RoundTrip has rejected with the impersonation error has a
\* reserved name, while an authenticated request with a reserved name, with
\* impersonation enabled, is rejected with that error
C17_HasImpersonationExact ==
    \A c \in Conns :
        LET h == req[c].Header
        IN  /\ pc[c] = "RoundTrip" =>
                  /\ hasImpersonation(h) <=> (\E n \in DOMAIN h : ReservedName(n))
                  /\ \A v \in InboundValues \cup { << <<"">> >> } :
                        hasImpersonation([n \in DOMAIN h |-> v]) = hasImpersonation(h)
                  /\ \A n \in DOMAIN h :
                        ~ReservedName(n) =>
                            hasImpersonation(WithoutHeader(h, n)) = hasImpersonation(h)
            /\ (Handled(c) /\ upstream[c] = <<>> /\ rtErr[c] = errImpersonateHeader)
                  => \E n \in DOMAIN h : ReservedName(n)
            /\ (/\ Handled(c)
                /\ authn[c].ok
                /\ ~options.DisableImpersonation
                /\ \E n \in DOMAIN h : ReservedName(n))
                  => upstream[c] = <<>> /\ rtErr[c] = errImpersonateHeader

\* an authenticated request with Impersonate-Uid, and a header whose value
\* reads Impersonate-User, has gone through the impersonating transport
C17_Witness ==
    \E c \in Conns :
        /\ Impersonated(c)
        /\ DOMAIN req[c].Header = {AuthorizationHeader, HdrImpersonateUid, HdrAccept}
        /\ req[c].Header[HdrAccept] = << <<"Impersonate-User">>, <<"y">> >>

\* the typed rejections of RoundTrip (proxy.go:31-34)
Rejections == { errUnauthorized, errImpersonateHeader, errNoName }

\* C18: a request RoundTrip has handled was either rejected with one of the
\* typed errors and nothing was sent upstream, or was sent upstream once on one
\* transport and RoundTrip returned the transport's response or error; no
\* request has more than one upstream round trip or more than one token review
C18_OneTerminalOutcome ==
    \A c \in Conns :
        /\ Len(upstream[c]) <= 1
        /\ Len(reviews[c]) <= 1
        /\ Handled(c) =>
              \/ /\ upstream[c] = <<>>
                 /\ rtErr[c] \in Rejections
              \/ /\ Len(upstream[c]) = 1
                 /\ upstream[c][1].transport \in {"clientRT", "noAuthClientRT"}
                 /\ rtErr[c] \in {Nil, errTransport}
        /\ pc[c] \in {"RoundTrip", "authenticated", "tokenReview"} =>
              upstream[c] = <<>> /\ rtErr[c] = Nil

\* the transport failed; the request was answered, after one round trip
C18_Witness ==
    \E c \in Conns :
        /\ pc[c] = "done"
        /\ rtErr[c] = errTransport
        /\ Len(upstream[c]) = 1
        /\ resp[c] = Error(errTransport)

\* C19: while the proxy serves, and whenever a request is being handled, the
\* impersonating transport is set and, under disable_impersonation or
\* token_review, so is the passthrough transport; a proxy whose Run failed, or
\* has not been called, handles no request; a request goes to the passthrough
\* transport only under disable_impersonation or token_review; and no request
\* is dispatched to an unset transport
C19_TransportsBuiltBeforeServing ==
    /\ (phase = "serving" \/ \E c \in Conns : req[c] # NoRequest) =>
          /\ clientTransport = "clientRT"
          /\ (options.DisableImpersonation \/ options.TokenReview) =>
                noAuthClientTransport = "noAuthClientRT"
    /\ phase \in {"new", "failed"} => \A c \in Conns : req[c] = NoRequest
    /\ \A c \in Conns :
          /\ pc[c] # "panic"
          /\ \A i \in 1..Len(upstream[c]) :
                upstream[c][i].transport = "noAuthClientRT" =>
                    (options.DisableImpersonation \/ options.TokenReview)

\* token review has passed a request to the passthrough transport
C19_Witness ==
    \E c \in Conns :
        /\ phase = "serving"
        /\ options.TokenReview /\ ~options.DisableImpersonation
        /\ reviews[c] # <<>>
        /\ pc[c] = "upstream"
        /\ upstream[c][1].transport = "noAuthClientRT"

====
